---- MODULE Spec2Model ----
(***************************************************************************)
(* A model of cpmpy's lazy Model container (cpmpy/model.py), of the        *)
(* auxiliary-variable counters that Model.from_file maintains, and of the  *)
(* MiniZinc text conversion (cppy/solver_interfaces/minizinc_text.py).     *)
(***************************************************************************)
EXTENDS Integers, Sequences, FiniteSets, TLC

VARIABLES
    lists,      \* heap of Python list objects: list reference -> contents
    mdl,        \* the Model objects: fields of each
    nruns,      \* number of solver runs started so far (each has its own status object)
    last,       \* the most recent call: operation, receiver, argument, outcome
    objCall,    \* per model, the most recent objective-setting call
    latestRun,  \* per model, the latest solver run that returned to the caller
    bvCounter,  \* _BoolVarImpl.counter, shared by the whole process
    ivCounter,  \* _IntVarImpl.counter, shared by the whole process
    highBV,     \* one more than the highest BV index handed out so far
    highIV,     \* one more than the highest IV index handed out so far
    loaded,     \* the names of the variables of the models loaded so far
    clash,      \* a variable was created under the name of a loaded variable
    dup,        \* an auxiliary index was handed out twice
    warned,     \* the latest from_file issued its duplicate-name warning
    pc,         \* where the thread running from_file is
    bv_counter, \* from_file's local bv_counter
    iv_counter, \* from_file's local iv_counter
    tmp,        \* from_file's evaluated max(..) not yet assigned
    tree,       \* the expression handed to MiniZincText.convert_expression
    txt         \* the text it returned, as a sequence of tokens

modelVars == <<lists, mdl, nruns, objCall, latestRun>>

ctrVars ==
    <<bvCounter, ivCounter, highBV, highIV, loaded, clash, dup, warned,
      pc, bv_counter, iv_counter, tmp>>

mznVars == <<tree, txt>>

vars ==
    <<lists, mdl, nruns, last, objCall, latestRun,
      bvCounter, ivCounter, highBV, highIV, loaded, clash, dup, warned,
      pc, bv_counter, iv_counter, tmp, tree, txt>>

----------------------------------------------------------------------------
(* Bounds *)

MaxCons == 2        \* longest constraint list explored
MaxRuns == 2        \* most solver runs explored

----------------------------------------------------------------------------
(* Python values: expressions, lists, tuples, arrays of variables, None *)

None == [k |-> "none", id |-> 0, e |-> <<>>]
PyTrue == [k |-> "pybool", id |-> 1, e |-> <<>>]
PyFalse == [k |-> "pybool", id |-> 0, e |-> <<>>]
PyBool(b) == IF b THEN PyTrue ELSE PyFalse
BoolExpr(i) == [k |-> "bool", id |-> i, e |-> <<>>]
IntExpr(i) == [k |-> "int", id |-> i, e |-> <<>>]
PyList(s) == [k |-> "list", id |-> 0, e |-> s]
PyTuple(s) == [k |-> "tuple", id |-> 0, e |-> s]
NDVarArray(s) == [k |-> "ndvararray", id |-> 0, e |-> s]

is_any_list(v) == v.k \in {"list", "tuple", "ndvararray"}
isExpression(v) == v.k \in {"bool", "int", "ndvararray"}
is_bool(v) == v.k = "bool"
isNDVarArray(v) == v.k = "ndvararray"

B1 == BoolExpr(1)
B2 == BoolExpr(2)
I1 == IntExpr(1)
I2 == IntExpr(2)
PyInt(n) == [k |-> "pyint", id |-> n, e |-> <<>>]
PyStr(i) == [k |-> "pystr", id |-> i, e |-> <<>>]
Raised == [k |-> "raised", id |-> 0, e |-> <<>>]

\* the arguments offered to Model.__add__
Cons ==
    { B1, I1,
      PyList(<<>>), PyList(<<B2>>), PyList(<<B1, B2>>), PyList(<<B1, I1>>),
      PyList(<<PyList(<<B1, I1>>)>>),
      PyList(<<PyList(<<PyList(<<B1>>)>>)>>),
      PyList(<<PyList(<<>>)>>),
      NDVarArray(<<I1>>),
      NDVarArray(<<NDVarArray(<<I1>>)>>),
      PyList(<<NDVarArray(<<I1>>)>>) }

\* the positional arguments offered to the constructor
CtorArgs ==
    { <<>> } \cup { <<c>> : c \in Cons } \cup
    { <<B1, PyList(<<B1, B2>>)>>, <<B1, I1>>,
      <<PyList(<<PyList(<<B1, I1>>)>>), B1>> }

\* the expressions offered as objective
ObjExprs == { I1, I2 }

ModelIds == {1, 2}

----------------------------------------------------------------------------
(* Model.__add__ on the contents of self.constraints *)

\* the type check of the elements of a list argument (lines 96-98)
elemRejected(elem) == isExpression(elem) /\ ~is_bool(elem) /\ ~isNDVarArray(elem)

\* the entry appended for an accepted argument (lines 100-111); NoEntry: none
NoEntry == [k |-> "noentry", id |-> 0, e |-> <<>>]

\* __add__ that stores a one-element list as it is (lines 103-105 left out)
entryOf_noUnpack(con) ==
    IF is_any_list(con) /\ Len(con.e) = 0 THEN NoEntry ELSE con

entryOf(con) ==
    IF is_any_list(con)
    THEN IF Len(con.e) = 0 THEN NoEntry
         ELSE IF Len(con.e) = 1 THEN con.e[1]
         ELSE con
    ELSE con

\* __add__ without the check of a lone expression (lines 107-109 left out)
addRaises_listOnly(con) ==
    is_any_list(con) /\ \E i \in 1..Len(con.e) : elemRejected(con.e[i])

\* does __add__ raise on con
addRaises(con) ==
    IF is_any_list(con)
    THEN \E i \in 1..Len(con.e) : elemRejected(con.e[i])
    ELSE isExpression(con) /\ ~is_bool(con)

\* __add__: the outcome on a constraint list cons
addResult(cons, con) ==
    IF addRaises(con) THEN [raised |-> TRUE, cons |-> cons]
    ELSE IF entryOf(con) = NoEntry THEN [raised |-> FALSE, cons |-> cons]
    ELSE [raised |-> FALSE, cons |-> Append(cons, entryOf(con))]

\* `for a in args: self += a`, stopping at the first raise
RECURSIVE addEach(_, _)
addEach(cons, args) ==
    IF args = <<>> THEN [raised |-> FALSE, cons |-> cons]
    ELSE LET r == addResult(cons, Head(args)) IN
         IF r.raised THEN r ELSE addEach(r.cons, Tail(args))

----------------------------------------------------------------------------
(* Model.__init__ *)

\* args after the historical shortcut (lines 68-69)
ctorArgs(args) == IF Len(args) = 1 THEN args[1] ELSE PyTuple(args)

\* the constraints stored by the constructor (lines 64-76)
ctorCons(args) ==
    LET a == ctorArgs(args) IN
    IF is_any_list(a) THEN addEach(<<>>, a.e) ELSE addResult(<<>>, a)

\* the fields of a constructed model; raised: the constructor raised
initResult(args, mini, maxi) ==
    LET c == ctorCons(args) IN
    IF mini # None /\ maxi # None
    THEN [raised |-> TRUE, constraints |-> <<>>, objective_ |-> None,
          objective_is_min |-> None]
    ELSE IF c.raised
    THEN [raised |-> TRUE, constraints |-> <<>>, objective_ |-> None,
          objective_is_min |-> None]
    ELSE IF mini # None
    THEN [raised |-> FALSE, constraints |-> c.cons, objective_ |-> mini,
          objective_is_min |-> PyTrue]
    ELSE IF maxi # None
    THEN [raised |-> FALSE, constraints |-> c.cons, objective_ |-> maxi,
          objective_is_min |-> PyFalse]
    ELSE [raised |-> FALSE, constraints |-> c.cons, objective_ |-> None,
          objective_is_min |-> None]

----------------------------------------------------------------------------
(* The Model objects *)

NoModel ==
    [alive |-> FALSE, constraints |-> 0, objective_ |-> None,
     objective_is_min |-> None, cpm_status |-> 0]

NoCall == [set |-> FALSE, e |-> None, min |-> FALSE]

Call(op, x, raised, arg, ret) ==
    [op |-> op, self |-> x, raised |-> raised, arg |-> arg, ret |-> ret]

\* a constructor that reuses the list of the first model
newList_shared(x) == 1

\* the list object allocated by `self.constraints = []` (line 64)
newList(x) == x

\* the contents of a model's constraint list
constraints(x) == lists[mdl[x].constraints]

\* the objective call the constructor makes (lines 79-82)
ctorCall(mini, maxi) ==
    IF mini # None THEN [set |-> TRUE, e |-> mini, min |-> TRUE]
    ELSE IF maxi # None THEN [set |-> TRUE, e |-> maxi, min |-> FALSE]
    ELSE NoCall

\* a model object built from the fields the constructor computed
construct(x, r) ==
    [alive |-> TRUE, constraints |-> newList(x), objective_ |-> r.objective_,
     objective_is_min |-> r.objective_is_min, cpm_status |-> 0]

\* the observable fields of a model
fields(x) ==
    [constraints |-> constraints(x), objective_ |-> mdl[x].objective_,
     objective_is_min |-> mdl[x].objective_is_min]

\* m = Model(*args, minimize=.., maximize=..)
__init__(x, args, mini, maxi) ==
    /\ ~mdl[x].alive
    /\ LET r == initResult(args, mini, maxi) IN
       /\ last' = Call("init", x, r.raised, PyTuple(<<PyTuple(args), mini, maxi>>), None)
       /\ IF r.raised
          THEN UNCHANGED <<lists, mdl, objCall>>
          ELSE /\ mdl' = [mdl EXCEPT ![x] = construct(x, r)]
               /\ lists' = [lists EXCEPT ![newList(x)] = r.constraints]
               /\ objCall' = [objCall EXCEPT ![x] = ctorCall(mini, maxi)]
    /\ UNCHANGED <<nruns, latestRun, ctrVars, mznVars>>

\* m += con
__add__(x, con) ==
    /\ mdl[x].alive
    /\ LET r == addResult(constraints(x), con) IN
       /\ Len(r.cons) <= MaxCons
       /\ lists' = [lists EXCEPT ![mdl[x].constraints] = r.cons]
       /\ last' = Call("add", x, r.raised, con, None)
    /\ UNCHANGED <<mdl, nruns, objCall, latestRun, ctrVars, mznVars>>

\* an objective that is kept once set
setObjective_first(m, expr, dir) ==
    IF m.objective_ # None THEN m
    ELSE [m EXCEPT !.objective_ = expr, !.objective_is_min = PyBool(dir)]

\* Model.objective: the fields it assigns (lines 125-126)
setObjective(m, expr, dir) ==
    [m EXCEPT !.objective_ = expr, !.objective_is_min = PyBool(dir)]

\* m.objective(expr, minimize)
objective(x, expr, dir) ==
    /\ mdl[x].alive
    /\ mdl' = [mdl EXCEPT ![x] = setObjective(mdl[x], expr, dir)]
    /\ objCall' = [objCall EXCEPT ![x] = [set |-> TRUE, e |-> expr, min |-> dir]]
    /\ last' = Call("objective", x, FALSE, expr, None)
    /\ UNCHANGED <<lists, nruns, latestRun, ctrVars, mznVars>>

\* m.minimize(expr)
minimize(x, expr) ==
    /\ mdl[x].alive
    /\ mdl' = [mdl EXCEPT ![x] = setObjective(mdl[x], expr, TRUE)]
    /\ objCall' = [objCall EXCEPT ![x] = [set |-> TRUE, e |-> expr, min |-> TRUE]]
    /\ last' = Call("minimize", x, FALSE, expr, None)
    /\ UNCHANGED <<lists, nruns, latestRun, ctrVars, mznVars>>

\* m.maximize(expr)
maximize(x, expr) ==
    /\ mdl[x].alive
    /\ mdl' = [mdl EXCEPT ![x] = setObjective(mdl[x], expr, FALSE)]
    /\ objCall' = [objCall EXCEPT ![x] = [set |-> TRUE, e |-> expr, min |-> FALSE]]
    /\ last' = Call("maximize", x, FALSE, expr, None)
    /\ UNCHANGED <<lists, nruns, latestRun, ctrVars, mznVars>>

has_objective(x) == mdl[x].objective_ # None

status(x) == mdl[x].cpm_status

\* the solver names and the results a solver run can give
Solvers == { None, PyStr(1) }
SolveOutcomes == { PyTrue, PyFalse, Raised }
SolveAllOutcomes == { PyInt(0), PyInt(2), Raised }

\* a solve that also drops the objective
storeStatus_dropObjective(m, run) ==
    [m EXCEPT !.cpm_status = run, !.objective_ = None, !.objective_is_min = None]

\* a solve that does not store the status of its run
storeStatus_skip(m, run) == m

\* the model after the status of run `run` is stored (lines 175, 203)
storeStatus(m, run) == [m EXCEPT !.cpm_status = run]

\* the body shared by solve() and solveAll(): lines 163-176 and 191-204
solveBody(op, x, solver, kwargs, outcome) ==
    /\ mdl[x].alive
    /\ IF kwargs /\ solver = None
       THEN /\ last' = Call(op, x, TRUE, None, None)
            /\ UNCHANGED <<mdl, nruns, latestRun>>
       ELSE /\ nruns < MaxRuns
            /\ nruns' = nruns + 1
            /\ IF outcome = Raised
               THEN /\ last' = Call(op, x, TRUE, PyList(constraints(x)), None)
                    /\ UNCHANGED <<mdl, latestRun>>
               ELSE /\ last' = Call(op, x, FALSE, PyList(constraints(x)), outcome)
                    /\ mdl' = [mdl EXCEPT ![x] = storeStatus(mdl[x], nruns + 1)]
                    /\ latestRun' = [latestRun EXCEPT ![x] = nruns + 1]
    /\ UNCHANGED <<lists, objCall, ctrVars, mznVars>>

\* m.solve(solver, **kwargs)
solve(x, solver, kwargs, outcome) == solveBody("solve", x, solver, kwargs, outcome)

\* m.solveAll(solver, **kwargs)
solveAll(x, solver, kwargs, outcome) == solveBody("solveAll", x, solver, kwargs, outcome)

\* the fields of the model m.copy() constructs (lines 292-295)
copyResult(x) ==
    IF mdl[x].objective_is_min = PyTrue
    THEN initResult(<<PyList(constraints(x))>>, mdl[x].objective_, None)
    ELSE initResult(<<PyList(constraints(x))>>, None, mdl[x].objective_)

\* c = m.copy(); y = 0: the result is not kept
copy(x, y) ==
    /\ mdl[x].alive
    /\ y # 0 => ~mdl[y].alive
    /\ LET r == copyResult(x) IN
       /\ last' = Call("copy", x, r.raised, None,
                       [constraints |-> r.constraints, objective_ |-> r.objective_,
                        objective_is_min |-> r.objective_is_min])
       /\ IF r.raised \/ y = 0
          THEN UNCHANGED <<lists, mdl, objCall>>
          ELSE /\ mdl' = [mdl EXCEPT ![y] = construct(y, r)]
               /\ lists' = [lists EXCEPT ![newList(y)] = r.constraints]
               /\ objCall' = [objCall EXCEPT ![y] =
                                 IF mdl[x].objective_is_min = PyTrue
                                 THEN ctorCall(mdl[x].objective_, None)
                                 ELSE ctorCall(None, mdl[x].objective_)]
    /\ UNCHANGED <<nruns, latestRun, ctrVars, mznVars>>

----------------------------------------------------------------------------
(* One model: construction, additions, objectives, solving, copying *)

\* no model constructed yet
InitModel ==
    /\ lists = [r \in ModelIds |-> <<>>]
    /\ mdl = [x \in ModelIds |-> NoModel]
    /\ nruns = 0
    /\ last = Call("none", 0, FALSE, None, None)
    /\ objCall = [x \in ModelIds |-> NoCall]
    /\ latestRun = [x \in ModelIds |-> 0]

\* the class-level counters as the interpreter starts
InitCounters ==
    /\ bvCounter = 0
    /\ ivCounter = 0
    /\ highBV = 0
    /\ highIV = 0
    /\ loaded = {}
    /\ clash = FALSE
    /\ dup = FALSE
    /\ warned = FALSE
    /\ pc = "idle"
    /\ bv_counter = 0
    /\ iv_counter = 0
    /\ tmp = 0

\* no expression converted yet
InitText ==
    /\ tree = None
    /\ txt = <<>>

Init == InitModel /\ InitCounters /\ InitText

Next ==
    \/ \E a \in CtorArgs, mn \in {None} \cup ObjExprs, mx \in {None} \cup ObjExprs :
          __init__(1, a, mn, mx)
    \/ \E c \in Cons : __add__(1, c)
    \/ \E e \in ObjExprs, d \in BOOLEAN : objective(1, e, d)
    \/ \E e \in ObjExprs : minimize(1, e)
    \/ \E e \in ObjExprs : maximize(1, e)
    \/ \E s \in Solvers, kw \in BOOLEAN, o \in SolveOutcomes : solve(1, s, kw, o)
    \/ \E s \in Solvers, kw \in BOOLEAN, o \in SolveAllOutcomes : solveAll(1, s, kw, o)
    \/ copy(1, 0)

Spec == Init /\ [][Next]_vars

----------------------------------------------------------------------------
(* Two models: a model and its copy, each changed after the copy *)

\* the arguments offered to __add__ of a model and of its copy
CopyCons == { B1, PyList(<<B1, B2>>), PyList(<<>>), I1 }

NextCopy ==
    \/ \E a \in { <<>>, <<B2>> }, mn \in {None, I1} : __init__(1, a, mn, None)
    \/ \E x \in ModelIds, c \in CopyCons : __add__(x, c)
    \/ \E x \in ModelIds, e \in ObjExprs : minimize(x, e)
    \/ \E x \in ModelIds, e \in ObjExprs : maximize(x, e)
    \/ copy(1, 2)

SpecCopy == Init /\ [][NextCopy]_vars

----------------------------------------------------------------------------
(* Properties of the Model container *)

ListKinds == {"list", "tuple", "ndvararray"}

\* a scalar expression that does not return a Boolean value
NonBoolScalar(v) == v.k = "int"

\* v is, or contains at some nesting, a non-Boolean scalar expression
RECURSIVE ContainsNonBool(_)
ContainsNonBool(v) ==
    \/ NonBoolScalar(v)
    \/ /\ v.k \in ListKinds
       /\ \E i \in 1..Len(v.e) : ContainsNonBool(v.e[i])

\* v is a non-Boolean scalar expression, or a list with one as a direct element
OffersNonBool(v) ==
    \/ NonBoolScalar(v)
    \/ /\ v.k \in ListKinds
       /\ \E i \in 1..Len(v.e) : NonBoolScalar(v.e[i])

\* C1 as stated: an argument of __add__ that contains a non-Boolean
\* expression at any nesting makes the call raise, and no non-Boolean
\* expression is stored in Model.constraints at any nesting.
C1_RejectsAtAnyNesting ==
    /\ (last.op = "add" /\ ContainsNonBool(last.arg)) => last.raised
    /\ \A x \in ModelIds : mdl[x].alive =>
          \A i \in 1..Len(constraints(x)) : ~ContainsNonBool(constraints(x)[i])

\* C1 amended: an argument of __add__ that is a non-Boolean scalar
\* expression (one that is not a list or array), or a list or array with such
\* an expression as a direct element, makes the call raise; a positional
\* argument of the constructor that is a non-Boolean scalar expression makes
\* the constructor raise; and no entry of Model.constraints is itself a
\* non-Boolean scalar expression.
C1_RejectsTopLevel ==
    /\ (last.op = "add" /\ OffersNonBool(last.arg)) => last.raised
    /\ (last.op = "init" /\ \E i \in 1..Len(last.arg.e[1].e) :
                               NonBoolScalar(last.arg.e[1].e[i])) => last.raised
    /\ \A x \in ModelIds : mdl[x].alive =>
          \A i \in 1..Len(constraints(x)) : ~NonBoolScalar(constraints(x)[i])

C1_Witness ==
    /\ last.op = "add" /\ last.raised /\ last.arg = PyList(<<B1, I1>>)
    /\ Len(constraints(1)) = 1

\* C2: a call of solve() or solveAll(), returning or raising, leaves the
\* constraints, the objective and its direction of the model as they were;
\* of the model's fields it changes cpm_status at most.
C2_SolveKeepsModel ==
    [][last'.op \in {"solve", "solveAll"} =>
          /\ lists' = lists
          /\ \A x \in ModelIds :
                mdl' [x] = [mdl[x] EXCEPT !.cpm_status = mdl'[x].cpm_status]]_vars

C2_Witness ==
    /\ last.op = "solveAll" /\ ~last.raised
    /\ mdl[1].cpm_status = 2 /\ mdl[1].objective_ = I2
    /\ Len(constraints(1)) = 2

\* C3: the constructor raises when given both minimize and maximize; the
\* stored objective is the expression of the most recent objective call and
\* objective_is_min is True exactly when that call minimizes; a model whose
\* objective was never set has objective_ = None, objective_is_min = None
\* and has_objective() false.
C3_LastObjectiveWins ==
    /\ (last.op = "init" /\ last.arg.e[2] # None /\ last.arg.e[3] # None)
          => last.raised
    /\ \A x \in ModelIds : mdl[x].alive =>
          IF objCall[x].set
          THEN /\ mdl[x].objective_ = objCall[x].e
               /\ (mdl[x].objective_is_min = PyTrue) <=> objCall[x].min
               /\ has_objective(x)
          ELSE /\ mdl[x].objective_ = None
               /\ mdl[x].objective_is_min = None
               /\ ~has_objective(x)

C3_Witness ==
    /\ last.op = "maximize" /\ last.arg = I2
    /\ mdl[1].objective_ = I2 /\ mdl[1].objective_is_min = PyFalse

\* C4: once c = m.copy() exists, an addition or objective change applied to
\* one of m and c leaves the constraints, objective and direction of the
\* other unchanged.
C4_CopyIsIndependent ==
    [][(mdl[1].alive /\ mdl[2].alive) =>
          \A y \in ModelIds : last'.self # y => fields(y)' = fields(y)]_vars

C4_Witness ==
    /\ mdl[1].alive /\ mdl[2].alive
    /\ last.op = "add" /\ last.self = 2 /\ ~last.raised
    /\ Len(constraints(2)) = Len(constraints(1)) + 1
    /\ Len(constraints(1)) = 1

\* C5 as stated: copy() never raises and returns a model with the same
\* constraint entries, position by position, and the same objective and
\* direction.
C5_CopyIsFaithful ==
    last.op = "copy" =>
        /\ ~last.raised
        /\ last.ret = fields(last.self)

\* C6: status() is the status of the latest solver run that returned on the
\* model (the placeholder before the first); after a solve call that returns
\* it is the status of that very run, and the run was handed all constraints
\* added so far.
C6_StatusIsLatestRun ==
    /\ \A x \in ModelIds : mdl[x].alive => status(x) = latestRun[x]
    /\ (last.op \in {"solve", "solveAll"} /\ ~last.raised) =>
          /\ status(last.self) = nruns
          /\ last.arg = PyList(constraints(last.self))

C6_Witness ==
    /\ last.op = "solve" /\ ~last.raised
    /\ nruns = 2 /\ status(1) = 2
    /\ Len(last.arg.e) = 2

IsPrefix(s, t) == Len(s) <= Len(t) /\ SubSeq(t, 1, Len(s)) = s

\* the entry C7 says an accepted, non-empty argument is stored as
StoredAs(con) ==
    IF con.k \in ListKinds /\ Len(con.e) = 1 THEN con.e[1] ELSE con

\* C7: adding an empty list leaves the constraints unchanged; every other
\* successful __add__ appends exactly one entry at the end (a one-element
\* list as its single element, a longer list as one entry); no operation
\* removes, reorders or replaces an entry.
C7_AppendOnly ==
    [][\A x \in ModelIds : mdl[x].alive =>
          LET old == constraints(x)
              new == constraints(x)'
          IN  /\ IsPrefix(old, new)
              /\ last'.op # "add" => new = old
              /\ (last'.op = "add" /\ last'.self = x) =>
                    IF last'.raised \/ (last'.arg.k \in ListKinds /\ Len(last'.arg.e) = 0)
                    THEN new = old
                    ELSE new = Append(old, StoredAs(last'.arg))]_vars

C7_Witness ==
    /\ last.op = "add" /\ last.arg = PyList(<<B2>>) /\ ~last.raised
    /\ constraints(1) = <<PyList(<<B1, B2>>), B2>>

----------------------------------------------------------------------------
(* Model.from_file and the counters that name auxiliary variables *)

MaxCounter == 3     \* no auxiliary variable is created beyond this counter value
MaxVars == 2        \* most variables in a loaded model

Max2(a, b) == IF a >= b THEN a ELSE b

Digit == <<"0", "1", "2", "3", "4", "5", "6", "7", "8", "9">>
DigitChars == { Digit[i] : i \in 1..10 }
digitVal(c) == (CHOOSE i \in 1..10 : Digit[i] = c) - 1

BV == <<"B", "V">>
IV == <<"I", "V">>

\* name.startswith(prefix)
startswith(name, prefix) ==
    Len(name) >= Len(prefix) /\ SubSeq(name, 1, Len(prefix)) = prefix

\* name[2:]
suffix(name) == SubSeq(name, 3, Len(name))

allDigits(s) == Len(s) > 0 /\ \A i \in 1..Len(s) : s[i] \in DigitChars

RECURSIVE digitsVal(_)
digitsVal(s) ==
    IF s = <<>> THEN 0
    ELSE 10 * digitsVal(SubSeq(s, 1, Len(s) - 1)) + digitVal(s[Len(s)])

\* Python's int(s) of a string: an optional sign and decimal digits, or ValueError
int(s) ==
    IF allDigits(s) THEN [ok |-> TRUE, val |-> digitsVal(s)]
    ELSE IF Len(s) > 1 /\ s[1] = "-" /\ allDigits(Tail(s))
    THEN [ok |-> TRUE, val |-> 0 - digitsVal(Tail(s))]
    ELSE IF Len(s) > 1 /\ s[1] = "+" /\ allDigits(Tail(s))
    THEN [ok |-> TRUE, val |-> digitsVal(Tail(s))]
    ELSE [ok |-> FALSE, val |-> 0]

\* Python's str(n) of n >= 0, as "BV{}".format(n) uses it
RECURSIVE str(_)
str(n) ==
    IF n < 10 THEN <<Digit[n + 1]>>
    ELSE str(n \div 10) \o <<Digit[(n % 10) + 1]>>

\* the variable names that occur in the models that are loaded
Names ==
    { <<"B", "V", "1">>, <<"B", "V", "0", "3">>, <<"I", "V", "0">>,
      <<"B", "V", "x">>, <<"I", "V", "-", "2">>, <<"x">> }

\* the variables get_variables_model finds in a pickled model (line 265)
Pickled == { vs \in SUBSET Names : Cardinality(vs) \in 1..MaxVars }

\* the loop body with `max(bv_counter, int(v.name[2:]))`, the + 1 left out
scanOne_noIncrement(c, name) ==
    IF startswith(name, BV)
    THEN IF int(suffix(name)).ok
         THEN [c EXCEPT !.bv = Max2(c.bv, int(suffix(name)).val)]
         ELSE c
    ELSE IF startswith(name, IV)
    THEN IF int(suffix(name)).ok
         THEN [c EXCEPT !.iv = Max2(c.iv, int(suffix(name)).val)]
         ELSE c
    ELSE c

\* the body of `for v in vs` (lines 268-278): the local counters after v
scanOne(c, name) ==
    IF startswith(name, BV)
    THEN IF int(suffix(name)).ok
         THEN [c EXCEPT !.bv = Max2(c.bv, int(suffix(name)).val + 1)]
         ELSE c
    ELSE IF startswith(name, IV)
    THEN IF int(suffix(name)).ok
         THEN [c EXCEPT !.iv = Max2(c.iv, int(suffix(name)).val + 1)]
         ELSE c
    ELSE c

\* the loop of lines 266-278 over the variables vs
RECURSIVE scan(_, _)
scan(c, vs) ==
    IF vs = {} THEN c
    ELSE LET v == CHOOSE v \in vs : TRUE IN scan(scanOne(c, v), vs \ {v})

\* the condition of the warning (lines 280-281)
warns(bv, iv) == (bvCounter > 0 /\ bv > 0) \/ (ivCounter > 0 /\ iv > 0)

\* Model.from_file(fname) run without interruption; vs: the variables of the file
from_file(vs) ==
    /\ pc = "idle"
    /\ LET c == scan([bv |-> 0, iv |-> 0], vs) IN
       /\ warned' = warns(c.bv, c.iv)
       /\ bvCounter' = Max2(bvCounter, c.bv)
       /\ ivCounter' = Max2(ivCounter, c.iv)
    /\ loaded' = loaded \cup vs
    /\ last' = Call("from_file", 0, FALSE, None, None)
    /\ UNCHANGED <<highBV, highIV, clash, dup, pc, bv_counter, iv_counter, tmp>>
    /\ UNCHANGED <<modelVars, mznVars>>

\* an auxiliary Boolean variable is created: it is named BV<counter>
newBoolVar ==
    /\ bvCounter < MaxCounter
    /\ clash' = (clash \/ (BV \o str(bvCounter)) \in loaded)
    /\ dup' = (dup \/ bvCounter < highBV)
    /\ highBV' = Max2(highBV, bvCounter + 1)
    /\ bvCounter' = bvCounter + 1
    /\ last' = Call("boolvar", 0, FALSE, None, None)
    /\ UNCHANGED <<ivCounter, highIV, loaded, warned, pc, bv_counter, iv_counter, tmp>>
    /\ UNCHANGED <<modelVars, mznVars>>

\* an auxiliary integer variable is created: it is named IV<counter>
newIntVar ==
    /\ ivCounter < MaxCounter
    /\ clash' = (clash \/ (IV \o str(ivCounter)) \in loaded)
    /\ dup' = (dup \/ ivCounter < highIV)
    /\ highIV' = Max2(highIV, ivCounter + 1)
    /\ ivCounter' = ivCounter + 1
    /\ last' = Call("intvar", 0, FALSE, None, None)
    /\ UNCHANGED <<bvCounter, highBV, loaded, warned, pc, bv_counter, iv_counter, tmp>>
    /\ UNCHANGED <<modelVars, mznVars>>

NextLoad ==
    \/ \E vs \in Pickled : from_file(vs)
    \/ newBoolVar
    \/ newIntVar

SpecLoad == Init /\ [][NextLoad]_vars

\* a name BVk, k written in decimal
IsAux(name, prefix, k) == name = prefix \o str(k)

MaxIndex == 12

\* C8: from_file never decreases a counter; after it each counter is above
\* the index k of every variable named BVk (IVk) of the loaded model; and no
\* auxiliary variable created after a load has the name of a loaded variable.
C8_LoadKeepsNamesFresh ==
    [][/\ last'.op = "from_file" =>
            /\ bvCounter' >= bvCounter
            /\ ivCounter' >= ivCounter
            /\ \A n \in loaded', k \in 0..MaxIndex :
                  /\ IsAux(n, BV, k) => bvCounter' > k
                  /\ IsAux(n, IV, k) => ivCounter' > k
       /\ ~clash']_vars

C8_Witness ==
    /\ last.op = "boolvar"
    /\ <<"B", "V", "1">> \in loaded
    /\ bvCounter = 3 /\ highBV = 3

----------------------------------------------------------------------------
(* from_file on one thread while another thread creates variables *)

\* the models loaded by the concurrent from_file
PickledConc == { {<<"B", "V", "1">>}, {<<"I", "V", "0">>},
                 {<<"B", "V", "1">>, <<"I", "V", "0">>} }

\* lines 261-278: unpickle and scan the variables
load(vs) ==
    /\ pc = "idle"
    /\ LET c == scan([bv |-> 0, iv |-> 0], vs) IN
       /\ bv_counter' = c.bv
       /\ iv_counter' = c.iv
    /\ loaded' = loaded \cup vs
    /\ pc' = "scanned"
    /\ last' = Call("load", 0, FALSE, None, None)
    /\ UNCHANGED <<bvCounter, ivCounter, highBV, highIV, clash, dup, warned, tmp>>
    /\ UNCHANGED <<modelVars, mznVars>>

\* lines 280-282: the warning
warn ==
    /\ pc = "scanned"
    /\ warned' = warns(bv_counter, iv_counter)
    /\ pc' = "warned"
    /\ last' = Call("warn", 0, FALSE, None, None)
    /\ UNCHANGED <<bvCounter, ivCounter, highBV, highIV, loaded, clash, dup,
                   bv_counter, iv_counter, tmp>>
    /\ UNCHANGED <<modelVars, mznVars>>

\* line 283, right-hand side: max(_BoolVarImpl.counter, bv_counter)
evalBV ==
    /\ pc = "warned"
    /\ tmp' = Max2(bvCounter, bv_counter)
    /\ pc' = "evalBV"
    /\ last' = Call("evalBV", 0, FALSE, None, None)
    /\ UNCHANGED <<bvCounter, ivCounter, highBV, highIV, loaded, clash, dup,
                   warned, bv_counter, iv_counter>>
    /\ UNCHANGED <<modelVars, mznVars>>

\* line 283, the assignment to _BoolVarImpl.counter
storeBV ==
    /\ pc = "evalBV"
    /\ bvCounter' = tmp
    /\ pc' = "storedBV"
    /\ last' = Call("storeBV", 0, FALSE, None, None)
    /\ UNCHANGED <<ivCounter, highBV, highIV, loaded, clash, dup,
                   warned, bv_counter, iv_counter, tmp>>
    /\ UNCHANGED <<modelVars, mznVars>>

\* line 284, right-hand side: max(_IntVarImpl.counter, iv_counter)
evalIV ==
    /\ pc = "storedBV"
    /\ tmp' = Max2(ivCounter, iv_counter)
    /\ pc' = "evalIV"
    /\ last' = Call("evalIV", 0, FALSE, None, None)
    /\ UNCHANGED <<bvCounter, ivCounter, highBV, highIV, loaded, clash, dup,
                   warned, bv_counter, iv_counter>>
    /\ UNCHANGED <<modelVars, mznVars>>

\* line 284, the assignment to _IntVarImpl.counter, and the return
storeIV ==
    /\ pc = "evalIV"
    /\ ivCounter' = tmp
    /\ pc' = "idle"
    /\ last' = Call("from_file", 0, FALSE, None, None)
    /\ UNCHANGED <<bvCounter, highBV, highIV, loaded, clash, dup,
                   warned, bv_counter, iv_counter, tmp>>
    /\ UNCHANGED <<modelVars, mznVars>>

NextConc ==
    \/ \E vs \in PickledConc : load(vs)
    \/ warn
    \/ evalBV
    \/ storeBV
    \/ evalIV
    \/ storeIV
    \/ newBoolVar
    \/ newIntVar

SpecConc == Init /\ [][NextConc]_vars

\* C9 as stated: with from_file on one thread and atomic creations on
\* another, a counter is never lower than an index already handed out, and
\* no index is handed out twice.
C9_CounterSafeUnderThreads ==
    /\ bvCounter >= highBV
    /\ ivCounter >= highIV
    /\ ~dup

----------------------------------------------------------------------------
(* MiniZincText.convert_expression *)

\* expression objects: class, operator name, operands
NumVarImpl(name) == [cls |-> "NumVarImpl", name |-> name, elems |-> <<>>]
MathOperator(name, left, right) ==
    [cls |-> "MathOperator", name |-> name, elems |-> <<left, right>>]
Comparison(name, left, right) ==
    [cls |-> "Comparison", name |-> name, elems |-> <<left, right>>]
BoolOperator(name, elems) ==
    [cls |-> "BoolOperator", name |-> name, elems |-> elems]

\* the expression trees that are converted: depth at most 2
IntLeaves == { NumVarImpl("x"), NumVarImpl("y") }
BoolLeaves == { NumVarImpl("p"), NumVarImpl("q") }
MathNames == { "+", "*" }
CompNames == { "<", "==" }
BoolNames == { "and", "or", "xor" }
Int1 == IntLeaves \cup
        { MathOperator(n, l, r) : n \in MathNames, l \in IntLeaves, r \in IntLeaves }
Bool1 == BoolLeaves \cup
         { Comparison(n, l, r) : n \in CompNames, l \in IntLeaves, r \in IntLeaves } \cup
         { BoolOperator(n, <<l, r>>) : n \in BoolNames, l \in BoolLeaves, r \in BoolLeaves }
Trees ==
    { MathOperator(n, l, r) : n \in MathNames, l \in Int1, r \in Int1 } \cup
    { Comparison(n, l, r) : n \in CompNames, l \in Int1, r \in Int1 } \cup
    { Comparison("==", l, r) : l \in Bool1, r \in Bool1 } \cup
    { BoolOperator(n, <<l, r>>) : n \in BoolNames, l \in Bool1, r \in Bool1 }

isMathOrComp(e) == e.cls \in {"MathOperator", "Comparison"}

\* "({})".format(t)
paren(t) == <<"(">> \o t \o <<")">>

\* the operator written for a two-operand BoolOperator (lines 83-85)
infixName(name) ==
    IF name = "and" THEN "/\\" ELSE IF name = "or" THEN "\\/" ELSE name

\* the function written for an n-ary BoolOperator (lines 89-91)
naryName(name) ==
    IF name = "and" THEN "forall"
    ELSE IF name = "xor" THEN "xorall"
    ELSE IF name = "or" THEN "exists"
    ELSE name

\* the texts ts separated by commas
RECURSIVE joined(_)
joined(ts) ==
    IF ts = <<>> THEN <<>>
    ELSE IF Len(ts) = 1 THEN ts[1]
    ELSE ts[1] \o <<",">> \o joined(Tail(ts))

\* convert_expression (lines 49-116) on variables, MathOperator, Comparison
\* and BoolOperator; the text is a sequence of tokens
RECURSIVE convert_expression(_)
convert_expression(e) ==
    IF e.cls = "NumVarImpl" THEN <<e.name>>
    ELSE IF isMathOrComp(e)
    THEN LET left_str == IF isMathOrComp(e.elems[1])
                         THEN paren(convert_expression(e.elems[1]))
                         ELSE convert_expression(e.elems[1])
             right_str == IF isMathOrComp(e.elems[2])
                          THEN paren(convert_expression(e.elems[2]))
                          ELSE convert_expression(e.elems[2])
         IN  left_str \o <<e.name>> \o right_str
    ELSE IF Len(e.elems) = 2
    THEN convert_expression(e.elems[1]) \o <<infixName(e.name)>>
            \o convert_expression(e.elems[2])
    ELSE <<naryName(e.name), "(", "[">>
            \o joined([i \in 1..Len(e.elems) |-> convert_expression(e.elems[i])])
            \o <<"]", ")">>

\* txt = MiniZincText().convert_expression(tree)
convert ==
    /\ txt = <<>>
    /\ txt' = convert_expression(tree)
    /\ last' = Call("convert_expression", 0, FALSE, None, None)
    /\ UNCHANGED <<tree, modelVars, ctrVars>>

InitMzn ==
    /\ InitModel
    /\ InitCounters
    /\ tree \in Trees
    /\ txt = <<>>

NextMzn == convert

SpecMzn == InitMzn /\ [][NextMzn]_vars

\* MiniZinc's infix operators, by how loosely they bind: \/ and xor, then
\* /\, then the comparisons, then +, then *
Looseness(tok) ==
    IF tok \in {"\\/", "xor"} THEN 5
    ELSE IF tok = "/\\" THEN 4
    ELSE IF tok \in {"<", "=="} THEN 3
    ELSE IF tok = "+" THEN 2
    ELSE IF tok = "*" THEN 1
    ELSE 0

\* the number of parentheses open before position i of s
RECURSIVE Open(_, _)
Open(s, i) ==
    IF i <= 1 THEN 0
    ELSE Open(s, i - 1) + (IF s[i - 1] = "(" THEN 1 ELSE 0)
                        - (IF s[i - 1] = ")" THEN 1 ELSE 0)

TopOps(s) == { i \in 1..Len(s) : Looseness(s[i]) > 0 /\ Open(s, i) = 0 }

SyntaxError == [cls |-> "SyntaxError", name |-> "", elems |-> <<>>]

\* the expression object a MiniZinc operator stands for
NodeOf(tok, l, r) ==
    IF tok \in {"+", "*"} THEN MathOperator(tok, l, r)
    ELSE IF tok \in {"<", "=="} THEN Comparison(tok, l, r)
    ELSE IF tok = "/\\" THEN BoolOperator("and", <<l, r>>)
    ELSE IF tok = "\\/" THEN BoolOperator("or", <<l, r>>)
    ELSE BoolOperator(tok, <<l, r>>)

\* the tree MiniZinc reads from the tokens s: it splits at the loosest
\* operator outside parentheses, the rightmost of them (the operators
\* associate to the left; two comparisons side by side are an error)
RECURSIVE Read(_)
Read(s) ==
    IF s = <<>> THEN SyntaxError
    ELSE IF TopOps(s) = {}
    THEN IF Len(s) = 1 THEN NumVarImpl(s[1])
         ELSE IF s[1] = "(" /\ s[Len(s)] = ")" THEN Read(SubSeq(s, 2, Len(s) - 1))
         ELSE SyntaxError
    ELSE LET lv == CHOOSE l \in 1..5 :
                      /\ \E i \in TopOps(s) : Looseness(s[i]) = l
                      /\ \A i \in TopOps(s) : Looseness(s[i]) <= l
             at == { i \in TopOps(s) : Looseness(s[i]) = lv }
             i == CHOOSE j \in at : \A k \in at : k <= j
         IN  IF lv = 3 /\ Cardinality(at) > 1 THEN SyntaxError
             ELSE NodeOf(s[i], Read(SubSeq(s, 1, i - 1)), Read(SubSeq(s, i + 1, Len(s))))

\* C10 as stated: the text convert_expression emits, read with MiniZinc's
\* operator precedence, is the expression that was converted.
C10_TextKeepsGrouping ==
    txt # <<>> => Read(txt) = tree

====
